---- MODULE Spec2Model ----
(***************************************************************************)
(* Model of the hand_detection_tflite desktop plugin shims.                *)
(*                                                                         *)
(*   linux/hand_detection_tflite_plugin.cc      GObject plugin, uname()    *)
(*   windows/hand_detection_tflite_plugin.cpp   C++ plugin, VersionHelpers *)
(*                                                                         *)
(* A behaviour fixes one target (platform) and one operating-system state  *)
(* in Init, then interleaves the host framework's steps: it calls the      *)
(* registration function, receives invocations on channels, runs the       *)
(* installed callback, and finally shuts the engine down.                  *)
(*                                                                         *)
(* Strings whose characters the code inspects (method names, the version   *)
(* string) are tuples of one-character strings.                            *)
(***************************************************************************)
EXTENDS Integers, Sequences, FiniteSets, TLC

VARIABLES
    platform,       \* "linux" | "windows": which shim is built
    kernel,         \* linux: the kernel's utsname strings
    winver,         \* windows: results of the three VersionHelpers checks
    plugins,        \* heap of plugin instances, in allocation order
    registrar,      \* "alive" | "destroyed": the host's plugin registrar
    registrar_plugins, \* windows: plugins owned by the registrar (AddPlugin)
    handlers,       \* messenger: channel name -> installed handler
    created,        \* channels constructed so far, in order
    method_call,    \* the invocation the callback is running on, or NoCall
    host_reply,     \* last invocation the messenger found no handler for
    last,           \* the invocation the callback finished last, until the
                    \* callback is started again
    twin,           \* the invocation finished before the current one, when
                    \* it had the same method name and other arguments
    first_version   \* value of the first "getPlatformVersion" success

vars == << platform, kernel, winver, plugins, registrar, registrar_plugins,
           handlers, created, method_call, host_reply, last, twin,
           first_version >>

----------------------------------------------------------------------------
(* Bounds *)

\* How many times the host may call the registration function.
MaxRegistrations == 2

----------------------------------------------------------------------------
(* Characters and C strings *)

NUL == "NUL"

\* The characters used, in ascending ASCII order.
AsciiOrder ==
    << " ", "#", "+", ".", "0", "1", "2", "4", "5", "6", "7", "8",
       "L", "M", "P", "S", "V", "W", "X",
       "a", "b", "d", "e", "f", "g", "h", "i", "l", "m", "n", "o", "p",
       "r", "s", "t", "u", "v", "w", "x" >>

Ord(c) == IF c = NUL THEN 0
          ELSE CHOOSE i \in DOMAIN AsciiOrder : AsciiOrder[i] = c

\* Character at position i of a NUL-terminated string held in s.
CharAt(s, i) == IF i \in DOMAIN s THEN s[i] ELSE NUL

\* strcmp(3): walk both strings until they differ or both end.
RECURSIVE strcmp_from(_, _, _)
strcmp_from(s1, s2, i) ==
    LET c1 == CharAt(s1, i)
        c2 == CharAt(s2, i)
    IN  IF c1 /= c2 THEN Ord(c1) - Ord(c2)
        ELSE IF c1 = NUL THEN 0
        ELSE strcmp_from(s1, s2, i + 1)

\* Variant: strncmp(s1, s2, strlen(s1)), which stops at the end of s1.
strncmp_strlen(s1, s2) ==
    strcmp_from(s1, SubSeq(s2, 1, IF Len(s1) < Len(s2) THEN Len(s1)
                                  ELSE Len(s2)), 1)

strcmp(s1, s2) == strcmp_from(s1, s2, 1)

\* std::string::compare(const char*): compare the common prefix, then lengths.
RECURSIVE compare_from(_, _, _)
compare_from(s, t, i) ==
    IF i > Len(s) \/ i > Len(t) THEN Len(s) - Len(t)
    ELSE IF s[i] /= t[i] THEN Ord(s[i]) - Ord(t[i])
    ELSE compare_from(s, t, i + 1)

compare(s, t) == compare_from(s, t, 1)

\* The characters of a char array up to its first NUL (what "%s" prints).
RECURSIVE CStr(_)
CStr(a) == IF a = << >> \/ Head(a) = NUL THEN << >>
           ELSE << Head(a) >> \o CStr(Tail(a))

----------------------------------------------------------------------------
(* Names *)

GET_PLATFORM_VERSION ==
    << "g","e","t","P","l","a","t","f","o","r","m",
       "V","e","r","s","i","o","n" >>

CHANNEL_NAME == "hand_detection_tflite"

\* The channels of the messenger that concern this plugin.
ChannelNames == { "hand_detection_tflite" }

\* Method names an invocation may carry.
MethodNames ==
    { GET_PLATFORM_VERSION,
      << "g","e","t","p","l","a","t","f","o","r","m",
         "v","e","r","s","i","o","n" >>,                       \* case differs
      SubSeq(GET_PLATFORM_VERSION, 1, 17),                     \* prefix
      GET_PLATFORM_VERSION \o << "X" >>,                       \* extension
      << >>,                                                   \* empty
      << "b","o","g","u","s","M","e","t","h","o","d" >> }

\* Arguments an invocation may carry: none, a null value, some value.
Arguments == { "absent", "null", "value" }

NoCall == [ kind |-> "none" ]
NoHandler == [ kind |-> "none" ]
NoValue == [ kind |-> "none" ]

----------------------------------------------------------------------------
(* Operating system *)

\* sizeof of each utsname field (glibc _UTSNAME_LENGTH).
UTSNAME_LENGTH == 65

\* utsname strings of the kernels considered.
Kernels ==
    { [ release |-> << "5", ".", "1", "5" >>,
        version |-> << "#", "1", " ", "S", "M", "P" >> ],
      [ release |-> << "6", ".", "1" >>,
        version |-> << "#", "2" >> ],
      \* a compatibility layer that reports the same text in both fields
      [ release |-> << "4", ".", "4" >>,
        version |-> << "4", ".", "4" >> ] }

\* Results of IsWindows10OrGreater / 8 / 7: three separate system calls.
WinVers == [ w10 : BOOLEAN, w8 : BOOLEAN, w7 : BOOLEAN ]

NoOs == [ kind |-> "none" ]

\* struct utsname uname_data = {};
ZeroUtsname ==
    [ release |-> [ i \in 1..UTSNAME_LENGTH |-> NUL ],
      version |-> [ i \in 1..UTSNAME_LENGTH |-> NUL ] ]

\* Copy a string into a char array, leaving the rest as it was.
StrCpy(array, s) ==
    [ i \in DOMAIN array |-> IF i <= Len(s) THEN s[i]
                             ELSE IF i = Len(s) + 1 THEN NUL
                             ELSE array[i] ]

\* uname(2): fill the caller's buffer from the kernel's strings.
uname(buf) ==
    [ release |-> StrCpy(buf.release, kernel.release),
      version |-> StrCpy(buf.version, kernel.version) ]

IsWindows10OrGreater == winver.w10
IsWindows8OrGreater == winver.w8
IsWindows7OrGreater == winver.w7

----------------------------------------------------------------------------
(* Responses *)

fl_value_new_string(s) == [ type |-> "string", value |-> s ]

fl_method_success_response_new(result) ==
    [ type |-> "success", result |-> result ]

fl_method_not_implemented_response_new ==
    [ type |-> "not_implemented" ]

\* fl_method_call_respond: hand one response for the call to the host.
fl_method_call_respond(call, response) ==
    [ call EXCEPT !.responses = Append(@, response) ]

fl_method_call_get_name(call) == call.name

\* flutter::EncodableValue(std::string)
EncodableValue(s) == [ type |-> "string", value |-> s ]

\* MethodResult::Success / NotImplemented: reply through the result object.
Success(call, value) ==
    [ call EXCEPT !.responses =
          Append(@, [ type |-> "success", result |-> value ]) ]

NotImplemented(call) ==
    [ call EXCEPT !.responses = Append(@, [ type |-> "not_implemented" ]) ]

----------------------------------------------------------------------------
(* Linux shim *)

\* g_strdup_printf("Linux %s", s)
g_strdup_printf_Linux(s) == << "L", "i", "n", "u", "x", " " >> \o CStr(s)

\* Variant: the version string is returned without the "Linux " prefix.
get_platform_version_unprefixed ==
    LET uname_data == uname(ZeroUtsname)
        result == fl_value_new_string(CStr(uname_data.version))
    IN  fl_method_success_response_new(result)

\* Variant: the release field of the utsname record is formatted.
get_platform_version_release ==
    LET uname_data == uname(ZeroUtsname)
        version == g_strdup_printf_Linux(uname_data.release)
        result == fl_value_new_string(version)
    IN  fl_method_success_response_new(result)

get_platform_version ==
    LET uname_data == uname(ZeroUtsname)
        version == g_strdup_printf_Linux(uname_data.version)
        result == fl_value_new_string(version)
    IN  fl_method_success_response_new(result)

\* Variant: only the recognised branch responds.
handle_method_call_silent(self, call) ==
    LET method == fl_method_call_get_name(call)
    IN  IF strcmp(method, GET_PLATFORM_VERSION) = 0
        THEN fl_method_call_respond(call, get_platform_version)
        ELSE call

hand_detection_tflite_plugin_handle_method_call(self, call) ==
    LET method == fl_method_call_get_name(call)
        response ==
            IF strcmp(method, GET_PLATFORM_VERSION) = 0
            THEN get_platform_version
            ELSE fl_method_not_implemented_response_new
    IN  fl_method_call_respond(call, response)

----------------------------------------------------------------------------
(* Windows shim *)

\* Variant: the checks run lowest version first.
VersionSuffix_ascending ==
    IF IsWindows7OrGreater THEN << "7" >>
    ELSE IF IsWindows8OrGreater THEN << "8" >>
    ELSE IF IsWindows10OrGreater THEN << "1", "0", "+" >>
    ELSE << >>

\* Variant: a final else appends the lowest label.
VersionSuffix_fallback ==
    IF IsWindows10OrGreater THEN << "1", "0", "+" >>
    ELSE IF IsWindows8OrGreater THEN << "8" >>
    ELSE << "7" >>

\* The suffix the if / else-if chain streams after "Windows ".
VersionSuffix ==
    IF IsWindows10OrGreater THEN << "1", "0", "+" >>
    ELSE IF IsWindows8OrGreater THEN << "8" >>
    ELSE IF IsWindows7OrGreater THEN << "7" >>
    ELSE << >>

\* Variant: version_stream is static, so every call appends to the text the
\* previous call left in it.
HandleMethodCall_static_stream(call) ==
    IF compare(call.name, GET_PLATFORM_VERSION) = 0
    THEN LET kept == IF first_version = NoValue THEN << >>
                     ELSE first_version.value
             version_stream ==
                 kept \o << "W", "i", "n", "d", "o", "w", "s", " " >>
                      \o VersionSuffix
         IN  Success(call, EncodableValue(version_stream))
    ELSE NotImplemented(call)

\* Variant: the method takes no arguments, so a call with some is refused.
HandleMethodCall_checks_arguments(call) ==
    IF compare(call.name, GET_PLATFORM_VERSION) = 0 /\ call.args = "absent"
    THEN LET version_stream ==
                 << "W", "i", "n", "d", "o", "w", "s", " " >> \o VersionSuffix
         IN  Success(call, EncodableValue(version_stream))
    ELSE NotImplemented(call)

HandleMethodCall(call) ==
    IF compare(call.name, GET_PLATFORM_VERSION) = 0
    THEN LET version_stream ==
                 << "W", "i", "n", "d", "o", "w", "s", " " >> \o VersionSuffix
         IN  Success(call, EncodableValue(version_stream))
    ELSE NotImplemented(call)

----------------------------------------------------------------------------
(* Plugin instances *)

\* linux: GObject reference counting on the heap of plugin instances.
g_object_new(heap) == Append(heap, [ ref_count |-> 1 ])

g_object_ref(heap, object) ==
    [ heap EXCEPT ![object].ref_count = @ + 1 ]

g_object_unref(heap, object) ==
    [ heap EXCEPT ![object].ref_count = @ - 1 ]

\* windows: std::unique_ptr ownership of the heap's plugin instances.
make_unique_plugin(heap) == Append(heap, [ owner |-> "local" ])

\* registrar->AddPlugin(std::move(plugin)): the registrar becomes the owner.
AddPlugin(heap, plugin) == [ heap EXCEPT ![plugin].owner = "registrar" ]

\* End of RegisterWithRegistrar: a unique_ptr that still owns its plugin
\* deletes it.
ScopeExit(heap) ==
    [ i \in DOMAIN heap |->
        IF heap[i].owner = "local" THEN [ owner |-> "destroyed" ]
        ELSE heap[i] ]

\* PluginRegistrar::ClearPlugins: delete every plugin the registrar owns.
ClearPlugins(heap, owned) ==
    [ i \in DOMAIN heap |->
        IF i \in owned THEN [ owner |-> "destroyed" ] ELSE heap[i] ]

\* Whether a plugin instance has not been freed.
Alive(object) ==
    IF platform = "linux" THEN plugins[object].ref_count > 0
    ELSE plugins[object].owner /= "destroyed"

----------------------------------------------------------------------------
(* Channels *)

fl_standard_method_codec_new == "standard"

StandardMethodCodec_GetInstance == "standard"

\* fl_method_channel_new: a channel bound to its name on the messenger, with
\* no method-call handler yet.
fl_method_channel_new(name, codec) ==
    [ kind |-> "handler", name |-> name, codec |-> codec,
      callback |-> "none", user_data |-> 0, destroy_notify |-> "none" ]

fl_method_channel_set_method_call_handler(channel, cb, user_data, notify) ==
    [ channel EXCEPT !.callback = cb, !.user_data = user_data,
                     !.destroy_notify = notify ]

\* The messenger drops a handler (replaced, or engine shut down): the
\* handler's destroy notification runs on its user data.
DropHandler(heap, handler) ==
    IF handler /= NoHandler /\ handler.destroy_notify = "g_object_unref"
    THEN g_object_unref(heap, handler.user_data)
    ELSE heap

\* flutter::MethodChannel(messenger, name, codec)
MethodChannel(name, codec) ==
    [ kind |-> "handler", name |-> name, codec |-> codec,
      callback |-> "none", user_data |-> 0 ]

\* channel->SetMethodCallHandler([plugin_pointer = plugin.get()](...){...})
SetMethodCallHandler(channel, plugin_pointer) ==
    [ channel EXCEPT !.callback = "lambda", !.user_data = plugin_pointer ]

----------------------------------------------------------------------------
(* Registration *)

\* Variant: the channel is created but no method-call handler is set on it.
register_without_handler ==
    LET heap1 == g_object_new(plugins)
        plugin == Len(heap1)
        codec == fl_standard_method_codec_new
        heap2 == DropHandler(heap1, handlers[CHANNEL_NAME])
        channel == fl_method_channel_new(CHANNEL_NAME, codec)
        heap3 == g_object_unref(heap2, plugin)
    IN  [ plugins |-> heap3,
          handlers |-> [ handlers EXCEPT ![channel.name] = channel ],
          created |-> Append(created,
                             [ name |-> channel.name, codec |-> codec ]) ]

\* linux: the state the registration function leaves behind.
hand_detection_tflite_plugin_register_with_registrar ==
    LET heap1 == g_object_new(plugins)
        plugin == Len(heap1)
        codec == fl_standard_method_codec_new
        heap2 == DropHandler(heap1, handlers[CHANNEL_NAME])
        channel == fl_method_channel_new(CHANNEL_NAME, codec)
        heap3 == g_object_ref(heap2, plugin)
        installed == fl_method_channel_set_method_call_handler(
                         channel, "method_call_cb", plugin, "g_object_unref")
        heap4 == g_object_unref(heap3, plugin)
    IN  [ plugins |-> heap4,
          handlers |-> [ handlers EXCEPT ![channel.name] = installed ],
          created |-> Append(created,
                             [ name |-> channel.name, codec |-> codec ]) ]

\* Variant: the plugin is never handed to the registrar.
RegisterWithRegistrar_without_AddPlugin ==
    LET channel == MethodChannel(CHANNEL_NAME, StandardMethodCodec_GetInstance)
        heap1 == make_unique_plugin(plugins)
        plugin == Len(heap1)
        installed == SetMethodCallHandler(channel, plugin)
    IN  [ plugins |-> ScopeExit(heap1),
          registrar_plugins |-> registrar_plugins,
          handlers |-> [ handlers EXCEPT ![channel.name] = installed ],
          created |-> Append(created, [ name |-> channel.name,
                                        codec |-> channel.codec ]) ]

\* windows: the state RegisterWithRegistrar leaves behind.
RegisterWithRegistrar ==
    LET channel == MethodChannel(CHANNEL_NAME, StandardMethodCodec_GetInstance)
        heap1 == make_unique_plugin(plugins)
        plugin == Len(heap1)
        installed == SetMethodCallHandler(channel, plugin)
        heap2 == AddPlugin(heap1, plugin)
        owned == { i \in DOMAIN heap2 : heap2[i].owner = "registrar" }
    IN  [ plugins |-> ScopeExit(heap2),
          registrar_plugins |-> owned,
          handlers |-> [ handlers EXCEPT ![channel.name] = installed ],
          created |-> Append(created, [ name |-> channel.name,
                                        codec |-> channel.codec ]) ]

----------------------------------------------------------------------------
(* Initial state *)

Init ==
    /\ \/ platform = "linux" /\ kernel \in Kernels /\ winver = NoOs
       \/ platform = "windows" /\ winver \in WinVers /\ kernel = NoOs
    /\ plugins = << >>
    /\ registrar = "alive"
    /\ registrar_plugins = { }
    /\ handlers = [ c \in ChannelNames |-> NoHandler ]
    /\ created = << >>
    /\ method_call = NoCall
    /\ host_reply = NoCall
    /\ last = NoCall
    /\ twin = NoCall
    /\ first_version = NoValue

----------------------------------------------------------------------------
(* Host steps.  The host runs everything on the platform thread, so it     *)
(* neither registers nor shuts down while a callback is running.           *)

\* linux: the host calls hand_detection_tflite_plugin_register_with_registrar.
LinuxRegister ==
    /\ platform = "linux"
    /\ registrar = "alive"
    /\ method_call = NoCall
    /\ Len(created) < MaxRegistrations
    /\ LET after == hand_detection_tflite_plugin_register_with_registrar
       IN  /\ plugins' = after.plugins
           /\ handlers' = after.handlers
           /\ created' = after.created
    /\ UNCHANGED << platform, kernel, winver, registrar, registrar_plugins,
                    method_call, host_reply, last, twin, first_version >>

\* windows: the host calls HandDetectionTflitePluginRegisterWithRegistrar (or
\* the C API entry point), which forwards to RegisterWithRegistrar.
WindowsRegister ==
    /\ platform = "windows"
    /\ registrar = "alive"
    /\ method_call = NoCall
    /\ Len(created) < MaxRegistrations
    /\ LET after == RegisterWithRegistrar
       IN  /\ plugins' = after.plugins
           /\ registrar_plugins' = after.registrar_plugins
           /\ handlers' = after.handlers
           /\ created' = after.created
    /\ UNCHANGED << platform, kernel, winver, registrar, method_call,
                    host_reply, last, twin, first_version >>

\* An invocation arrives on a channel.  The messenger looks the channel up:
\* with a handler installed the callback starts on the invocation, without
\* one the host answers the caller itself.
Receive ==
    /\ registrar = "alive"
    /\ method_call = NoCall
    /\ \E channel \in ChannelNames, name \in MethodNames, args \in Arguments :
          LET handler == handlers[channel]
              call == [ kind |-> "call", channel |-> channel, name |-> name,
                        args |-> args, responses |-> << >> ]
          IN  IF handler /= NoHandler /\ handler.callback /= "none"
              THEN /\ method_call' = call
                   /\ twin' = IF /\ last.kind = "call"
                                 /\ last.name = name
                                 /\ last.args /= args
                              THEN last
                              ELSE NoCall
                   /\ last' = NoCall
                   /\ UNCHANGED host_reply
              ELSE /\ host_reply' = [ kind |-> "missing", channel |-> channel,
                                      registered |-> Len(created) > 0 ]
                   /\ UNCHANGED << method_call, last, twin >>
    /\ UNCHANGED << platform, kernel, winver, plugins, registrar,
                    registrar_plugins, handlers, created, first_version >>

\* What the finished invocation leaves in the history variables.
Finished(done) ==
    /\ last' = done
    /\ UNCHANGED twin
    /\ first_version' =
          IF /\ first_version = NoValue
             /\ done.kind = "call"
             /\ done.name = GET_PLATFORM_VERSION
             /\ Len(done.responses) > 0
             /\ done.responses[1].type = "success"
          THEN done.responses[1].result
          ELSE first_version
    /\ method_call' = NoCall

\* Outcome of a callback that dereferences a freed plugin: anything.
Crashed == [ kind |-> "crash" ]

\* linux: method_call_cb casts user_data to the plugin and runs the handler.
method_call_cb ==
    /\ platform = "linux"
    /\ method_call /= NoCall
    /\ LET plugin == handlers[method_call.channel].user_data
           done == hand_detection_tflite_plugin_handle_method_call(
                       plugin, method_call)
       IN  IF Alive(plugin)
           THEN Finished(done)
           ELSE \E outcome \in { Crashed, done } : Finished(outcome)
    /\ UNCHANGED << platform, kernel, winver, plugins, registrar,
                    registrar_plugins, handlers, created, host_reply >>

\* windows: the lambda calls plugin_pointer->HandleMethodCall(call, result).
Lambda ==
    /\ platform = "windows"
    /\ method_call /= NoCall
    /\ LET plugin_pointer == handlers[method_call.channel].user_data
           done == HandleMethodCall(method_call)
       IN  IF Alive(plugin_pointer)
           THEN Finished(done)
           ELSE \E outcome \in { Crashed, done } : Finished(outcome)
    /\ UNCHANGED << platform, kernel, winver, plugins, registrar,
                    registrar_plugins, handlers, created, host_reply >>

\* linux: the engine is disposed; the messenger drops every handler.
LinuxShutdown ==
    /\ platform = "linux"
    /\ registrar = "alive"
    /\ method_call = NoCall
    /\ registrar' = "destroyed"
    /\ plugins' = DropHandler(plugins, handlers[CHANNEL_NAME])
    /\ handlers' = [ c \in ChannelNames |-> NoHandler ]
    /\ UNCHANGED << platform, kernel, winver, registrar_plugins, created,
                    method_call, host_reply, last, twin, first_version >>

\* windows: ~PluginRegistrar clears the plugins, then resets the messenger.
WindowsShutdown ==
    /\ platform = "windows"
    /\ registrar = "alive"
    /\ method_call = NoCall
    /\ registrar' = "destroyed"
    /\ plugins' = ClearPlugins(plugins, registrar_plugins)
    /\ registrar_plugins' = { }
    /\ handlers' = [ c \in ChannelNames |-> NoHandler ]
    /\ UNCHANGED << platform, kernel, winver, created, method_call,
                    host_reply, last, twin, first_version >>

Next ==
    \/ LinuxRegister
    \/ WindowsRegister
    \/ Receive
    \/ method_call_cb
    \/ Lambda
    \/ LinuxShutdown
    \/ WindowsShutdown

Spec == Init /\ [][Next]_vars

\* A callback the host has started runs to its end.
FairSpec == Spec /\ WF_vars(method_call_cb) /\ WF_vars(Lambda)

----------------------------------------------------------------------------
(* Properties *)

LINUX_PREFIX == << "L", "i", "n", "u", "x", " " >>

WINDOWS_PREFIX == << "W", "i", "n", "d", "o", "w", "s", " " >>

IsPrefix(p, t) == Len(p) <= Len(t) /\ SubSeq(t, 1, Len(p)) = p

\* The callback has finished an invocation of the given kind of name.
Answered(call) == call.kind = "call" /\ Len(call.responses) > 0

AnsweredVersion == Answered(last) /\ last.name = GET_PLATFORM_VERSION

AnsweredOther == Answered(last) /\ last.name /= GET_PLATFORM_VERSION

\* C1: an invocation whose method name is not exactly "getPlatformVersion"
\* is answered with not-implemented and never with success, on both shims.
C1_NotImplemented ==
    AnsweredOther =>
        \A i \in DOMAIN last.responses :
            last.responses[i] = [ type |-> "not_implemented" ]

\* An invocation named like the recognised method but for its last
\* character missing was answered with not-implemented.
C1_Witness ==
    /\ AnsweredOther
    /\ last.name = SubSeq(GET_PLATFORM_VERSION, 1, 17)
    /\ last.responses[1].type = "not_implemented"

\* C2: "getPlatformVersion" is answered with a success whose value is a
\* string, and on linux the string starts with "Linux ".
C2_SuccessString ==
    (last.kind = "call" /\ last.name = GET_PLATFORM_VERSION) =>
        /\ Len(last.responses) > 0
        /\ \A i \in DOMAIN last.responses :
              /\ last.responses[i].type = "success"
              /\ last.responses[i].result.type = "string"
              /\ platform = "linux" =>
                    IsPrefix(LINUX_PREFIX, last.responses[i].result.value)

C2_Witness ==
    /\ platform = "linux"
    /\ AnsweredVersion
    /\ last.responses[1].type = "success"
    /\ IsPrefix(LINUX_PREFIX, last.responses[1].result.value)

\* C3 as stated: on linux, when the release and version fields of the
\* utsname record differ, the string is "Linux " followed by the release.
C3_Release ==
    (platform = "linux" /\ AnsweredVersion
        /\ kernel.release /= kernel.version) =>
        last.responses[1].result.value = LINUX_PREFIX \o kernel.release

\* C3 amended: on linux, when the release and version fields of the utsname
\* record differ, the string is "Linux " followed by the version field.
C3_Version ==
    (platform = "linux" /\ AnsweredVersion
        /\ kernel.release /= kernel.version) =>
        last.responses[1].result.value = LINUX_PREFIX \o kernel.version

C3_Witness ==
    /\ platform = "linux"
    /\ AnsweredVersion
    /\ kernel.release /= kernel.version
    /\ last.responses[1].result.value /= LINUX_PREFIX \o kernel.release

\* C4: on windows, when at least one of the three checks is true, the value
\* is "Windows " followed by the label of the highest version whose check
\* is true, and by nothing else.
C4_HighestLabel ==
    (platform = "windows" /\ AnsweredVersion
        /\ (winver.w10 \/ winver.w8 \/ winver.w7)) =>
        last.responses[1].result.value =
            WINDOWS_PREFIX \o
                (IF winver.w10 THEN << "1", "0", "+" >>
                 ELSE IF winver.w8 THEN << "8" >>
                 ELSE << "7" >>)

\* The 8 check is the first to succeed while the 7 check succeeds too.
C4_Witness ==
    /\ platform = "windows"
    /\ AnsweredVersion
    /\ winver = [ w10 |-> FALSE, w8 |-> TRUE, w7 |-> TRUE ]
    /\ last.responses[1].result.value = WINDOWS_PREFIX \o << "8" >>

\* C5: on windows, when none of the three checks succeeds, the answer is a
\* success whose value is the string "Windows " and nothing after it.
C5_NoSuffix ==
    (platform = "windows" /\ last.kind = "call"
        /\ last.name = GET_PLATFORM_VERSION
        /\ ~ winver.w10 /\ ~ winver.w8 /\ ~ winver.w7) =>
        /\ Len(last.responses) > 0
        /\ last.responses[1] =
              [ type |-> "success",
                result |-> [ type |-> "string", value |-> WINDOWS_PREFIX ] ]

C5_Witness ==
    /\ platform = "windows"
    /\ AnsweredVersion
    /\ winver = [ w10 |-> FALSE, w8 |-> FALSE, w7 |-> FALSE ]
    /\ Len(last.responses[1].result.value) = 8

\* C6: every invocation the callback is started on is finished, and a
\* finished invocation has been handed exactly one response.
C6_ExactlyOnce ==
    /\ [](last.kind = "call" => Len(last.responses) = 1)
    /\ (method_call /= NoCall) ~> (method_call = NoCall)

\* Both outcomes have been handed back once.
C6_Witness ==
    /\ last.kind = "call"
    /\ last.name = << >>
    /\ Len(last.responses) = 1
    /\ first_version /= NoValue

\* C7: each registration creates one channel named "hand_detection_tflite"
\* with the standard codec and installs one callback on it, bound to the
\* plugin that registration created; from then on no invocation on the
\* channel is left without a handler.
C7_Registration ==
    /\ Len(created) = Len(plugins)
    /\ \A i \in DOMAIN created :
          created[i] = [ name |-> "hand_detection_tflite",
                         codec |-> "standard" ]
    /\ (registrar = "alive" /\ Len(plugins) > 0) =>
          /\ handlers["hand_detection_tflite"] /= NoHandler
          /\ handlers["hand_detection_tflite"].callback \in
                { "method_call_cb", "lambda" }
          /\ handlers["hand_detection_tflite"].codec = "standard"
          /\ handlers["hand_detection_tflite"].user_data = Len(plugins)
    /\ host_reply /= NoCall => ~ host_reply.registered
    /\ method_call /= NoCall =>
          /\ method_call.channel = "hand_detection_tflite"
          /\ Len(plugins) > 0

\* An invocation that arrived after a registration is in the callback.
C7_Witness ==
    /\ Len(created) = 1
    /\ method_call /= NoCall
    /\ handlers["hand_detection_tflite"].user_data = 1

\* C8: every "getPlatformVersion" success carries the value of the first
\* one.
C8_SameAsFirst ==
    AnsweredVersion =>
        \A i \in DOMAIN last.responses :
            last.responses[i].type = "success" =>
                last.responses[i].result = first_version

\* Two invocations of "getPlatformVersion" in a row have been answered.
C8_Witness ==
    /\ AnsweredVersion
    /\ twin /= NoCall
    /\ twin.name = GET_PLATFORM_VERSION
    /\ last.responses[1].result = first_version

\* C9: two invocations with the same method name and different arguments
\* get the same responses.
C9_ArgumentsIgnored ==
    (twin /= NoCall /\ last.kind = "call") =>
        /\ twin.name = last.name
        /\ twin.args /= last.args
        /\ twin.responses = last.responses

C9_Witness ==
    /\ Answered(last)
    /\ twin /= NoCall
    /\ twin.args = "absent"
    /\ last.args = "value"
    /\ twin.responses = last.responses

\* The plugin an installed handler refers to.
Installed(object) ==
    \E c \in ChannelNames :
        /\ handlers[c] /= NoHandler
        /\ handlers[c].callback /= "none"
        /\ handlers[c].user_data = object

\* C10: the plugin of an installed callback is alive.  On linux a plugin
\* holds one reference while a handler owns it and none otherwise; on
\* windows the registrar owns every plugin until it is destroyed, and then
\* they are all deleted.  No callback ran on a freed plugin.
C10_PluginAlive ==
    /\ \A object \in DOMAIN plugins : Installed(object) => Alive(object)
    /\ method_call /= NoCall =>
          Alive(handlers[method_call.channel].user_data)
    /\ last /= Crashed
    /\ platform = "linux" =>
          \A object \in DOMAIN plugins :
              plugins[object].ref_count =
                  IF Installed(object) THEN 1 ELSE 0
    /\ platform = "windows" =>
          /\ registrar_plugins =
                IF registrar = "alive" THEN DOMAIN plugins ELSE { }
          /\ \A object \in DOMAIN plugins :
                plugins[object].owner =
                    IF registrar = "alive" THEN "registrar" ELSE "destroyed"

\* The callback runs on the plugin of the second registration.
C10_Witness ==
    /\ method_call /= NoCall
    /\ Len(plugins) = 2
    /\ handlers[method_call.channel].user_data = 2
    /\ Alive(2)

====
